---- MODULE Spec2Model ----
(***************************************************************************)
(* Model of the retrieval-and-grounding pipeline of the CRM RAG service:   *)
(*   - DataIngestionService (ingestFromDirectSource, ingestFromSource,     *)
(*     ingestBulk, ingestFromDirectory),                                    *)
(*   - VectorStore (initialize, addDocuments, search, reset) and the       *)
(*     getVectorStore singleton accessor,                                   *)
(*   - RAGEngine (buildContext, calculateConfidence, query,                 *)
(*     conversationalQuery).                                                *)
(* The embedding provider, the vector index and the generation service are *)
(* external: each call to them either fails or answers, nondeterministically.*)
(***************************************************************************)
EXTENDS Integers, Sequences, FiniteSets, TLC

VARIABLES
    store,       \* documents held by the index collection: document id -> document
    exists,      \* the collection exists on the index server
    instance,    \* vectorStoreInstance is not null
    collection,  \* VectorStore.collection is not null
    clock,       \* milliseconds elapsed on the wall clock read by Date.now()
    last,        \* the last call made to the service and what it returned
    conversationHistory,  \* chat page: the turns of the answered questions
    requests,             \* chat page: the POST /api/query requests in flight
    submitted,            \* chat page: how many requests the page has sent
    disabled              \* chat page: submitBtn.disabled

\* The state of the chat page in the browser.
page == <<conversationHistory, requests, submitted, disabled>>

vars == <<store, exists, instance, collection, clock, last, page>>

----------------------------------------------------------------------------
(* Bounds of the model *)

MaxBatch == 2      \* records in one loaded data set
MaxSources == 3    \* requests in one ingestBulk call
MaxClock == 1      \* wall clock ticks
MaxRequests == 3   \* requests the chat page sends
MaxDocs == 2       \* documents the collection may hold
MaxDistance == 2   \* largest distance the index reports
MaxTopK == 2       \* largest topK a request names
MaxHistory == 2    \* turns of history in a conversational request

----------------------------------------------------------------------------
(* Values *)

NoVal == "undefined"     \* an absent property

DataTypes == {"customer", "quote", "work_history"}

Item(k, c, q, w, t, r) ==
    [kind |-> k, customerId |-> c, quoteId |-> q, workId |-> w, type |-> t, rev |-> r]

Revs == {1, 2}

\* The CRM records the data sources hold.  kind is the shape of the record (which
\* interface's mandatory fields it carries); rev stands for its descriptive fields.
Customers == { Item("customer", "c1", NoVal, NoVal, NoVal, r) : r \in Revs }
Quotes == { Item("quote", "c1", q, NoVal, NoVal, 1) : q \in {"q1", "q2"} }
WorkHistories == { Item("work_history", "c1", NoVal, "w1", NoVal, 1) }
\* a row without any identifier column, with a column named type
Unkeyed == { Item("customer", NoVal, NoVal, NoVal, "vip", 1) }

Items == Customers \cup Quotes \cup WorkHistories \cup Unkeyed

\* Records of the files of one directory: files of different record types may sit
\* side by side.
DirectoryItems == { Item("customer", "c1", NoVal, NoVal, NoVal, 1),
                    Item("quote", "c1", "q1", NoVal, NoVal, 1),
                    Item("work_history", "c1", NoVal, "w1", NoVal, 1) }

SeqsUpTo(S, n) == UNION { [1..k -> S] : k \in 0..n }

\* What CRMConnector.loadData / loadDirectory does for a source: it throws
\* (loaded = FALSE) or returns the rows it read.
DataSets == UNION { SeqsUpTo(S, MaxBatch) : S \in {Customers \cup Unkeyed, Quotes, WorkHistories} }

LoadFail == [loaded |-> FALSE, rows |-> <<>>]

Loads == {LoadFail} \cup { [loaded |-> TRUE, rows |-> d] : d \in DataSets }

\* loadDirectory concatenates the rows of every file of the directory.
DirectoryLoads == {LoadFail} \cup { [loaded |-> TRUE, rows |-> d] : d \in SeqsUpTo(DirectoryItems, MaxBatch) }

\* The metadata of a direct ingestion request (absent properties are NoVal).
DirectMetas == { [id |-> NoVal, type |-> NoVal], [id |-> "c1", type |-> NoVal],
                 [id |-> "c1", type |-> "vip"] }

\* The data types of direct ingestion requests.
DirectTypes == {"customer", "quote"}

\* The sources of the requests of a bulk ingestion.
BulkLoads ==
    {LoadFail} \cup { [loaded |-> TRUE, rows |-> d] :
                        d \in SeqsUpTo(Unkeyed, 2) \cup SeqsUpTo({Item("quote", "c1", "q1", NoVal, NoVal, 1)}, 1) }

BulkRequests ==
    { r \in [load : BulkLoads, dataType : {"customer", "quote"}, svc : {"ok", "indexFail"}] :
        /\ r.load.rows # <<>> => r.dataType = r.load.rows[1].kind
        /\ r.load.rows = <<>> => r.svc = "ok" }

EmptyStore == [id \in {} |-> NoVal]

\* Distances the index reports (squared L2, the collection's default space).
Distances == 0..MaxDistance

\* The options of a query request: each of topK and minScore given or absent.
TopKs == 1..MaxTopK
MinScores == { <<0, 1>>, <<1, 3>>, <<1, 1>> }

QueryOptions ==
    {[x \in {} |-> 0]}
    \cup { [x \in {"topK"} |-> k] : k \in TopKs }
    \cup { [x \in {"minScore"} |-> m] : m \in MinScores }
    \cup { [x \in {"topK", "minScore"} |-> IF x = "topK" THEN k ELSE m] : k \in TopKs, m \in MinScores }

Messages == { [role |-> "user", content |-> "earlier question"],
              [role |-> "assistant", content |-> "earlier answer"] }

Histories == SeqsUpTo(Messages, MaxHistory)

TextBlock == [type |-> "text", text |-> "answer"]
ToolBlock == [type |-> "tool_use", text |-> NoVal]

\* What messages.create does: it throws, or answers with a list of content blocks.
Generations ==
    { [fails |-> TRUE, content |-> <<>>] }
    \cup { [fails |-> FALSE, content |-> c] :
             c \in { <<>>, <<TextBlock>>, <<ToolBlock>>, <<ToolBlock, TextBlock>> } }

----------------------------------------------------------------------------
(* Record Normalizer: ids, text and metadata of a vector document *)

\* JavaScript truthiness of an identifier value: undefined and "" are falsy.
Truthy(v) == v # NoVal /\ v # ""

\* a || b
OrElse(a, b) == IF Truthy(a) THEN a ELSE b

\* `${dataType}_${key}`
DocId(dataType, key) == dataType \o "_" \o key

\* (item as any).customerId || (item as any).quoteId || (item as any).workId || index
SourceKey(item, index) ==
    OrElse(item.customerId, OrElse(item.quoteId, OrElse(item.workId, ToString(index))))

\* convertToText reads the mandatory fields of the interface named by dataType and
\* throws when one it dereferences (totalSales, items, laborCost, ...) is absent.
ConvertThrows(item, dataType) == item.kind # dataType

ConvertToText(item, dataType) ==
    CASE dataType = "customer" ->
           [label |-> "customer", id |-> item.customerId, customerId |-> NoVal, rev |-> item.rev]
      [] dataType = "quote" ->
           [label |-> "quote", id |-> item.quoteId, customerId |-> item.customerId, rev |-> item.rev]
      [] OTHER ->
           [label |-> "work_history", id |-> item.workId, customerId |-> item.customerId,
            rev |-> item.rev]

\* { type: dataType, ...item }: a type property of the item is spread after, and
\* replaces, the one set from dataType.
SpreadType(dataType, t) == IF t # NoVal THEN t ELSE dataType

SourceMetadata(dataType, item) ==
    [type |-> SpreadType(dataType, item.type), customerId |-> item.customerId,
     quoteId |-> item.quoteId, workId |-> item.workId, rev |-> item.rev]

\* The document ingestFromSource and ingestFromDirectory build for data[index].
SourceDocument(item, dataType, index) ==
    [id |-> DocId(dataType, SourceKey(item, index)),
     content |-> ConvertToText(item, dataType),
     metadata |-> SourceMetadata(dataType, item)]

\* data.map((item, index) => ...), index from 0
SourceDocuments(data, dataType) ==
    [i \in 1..Len(data) |-> SourceDocument(data[i], dataType, i - 1)]

----------------------------------------------------------------------------
(* Vector Index Adapter and VectorStore *)

Ids(docs) == { docs[i].id : i \in 1..Len(docs) }

\* The client rejects a batch that names one id twice.
DuplicateIds(docs) == Cardinality(Ids(docs)) # Len(docs)

\* collection.add: a record whose id is already in the collection is left as it is
\* (add never overwrites); the others are inserted.
\* For comparison: an add that replaces what the collection held by the batch.
IndexAddAfresh(st, docs) ==
    [id \in Ids(docs) |->
        LET d == docs[CHOOSE i \in 1..Len(docs) : docs[i].id = id]
        IN [content |-> d.content, metadata |-> d.metadata]]

IndexAdd(st, docs) ==
    [id \in DOMAIN st \cup Ids(docs) |->
        IF id \in DOMAIN st THEN st[id]
        ELSE LET d == docs[CHOOSE i \in 1..Len(docs) : docs[i].id = id]
             IN [content |-> d.content, metadata |-> d.metadata]]

Env == [store |-> store, exists |-> exists, instance |-> instance, collection |-> collection]

\* getVectorStore: the first call constructs the instance and initializes it;
\* initOk says whether getOrCreateCollection answers.  ok = FALSE when it throws.
GetVectorStore(env, initOk) ==
    IF env.instance
    THEN [env |-> env, ok |-> TRUE, calls |-> <<>>]
    ELSE IF initOk
         THEN [env |-> [env EXCEPT !.instance = TRUE, !.collection = TRUE, !.exists = TRUE],
               ok |-> TRUE, calls |-> <<"getOrCreateCollection">>]
         ELSE [env |-> [env EXCEPT !.instance = TRUE],
               ok |-> FALSE, calls |-> <<"getOrCreateCollection">>]

Services == {"ok", "embedFail", "indexFail"}

\* For comparison: a store that never finds its collection missing.
AlwaysInitialized(env) == FALSE

\* if (!this.collection) throw ..., the first statement of search, addDocument,
\* addDocuments, getStatus and listDocuments
NotInitialized(env) == ~env.collection

\* The embedding requests of a batch: Promise.all starts one per document.
Embeds(docs) == [i \in 1..Len(docs) |-> "embed"]

\* For comparison: documents embedded and written one after the other, so that
\* those before the failing one are in the collection when the call fails.
AddDocumentsOneByOne(env, docs, svc) ==
    IF NotInitialized(env)
    THEN [env |-> env, ok |-> FALSE, error |-> "notInitialized", calls |-> <<>>]
    ELSE IF Len(docs) = 0 THEN [env |-> env, ok |-> TRUE, error |-> "none", calls |-> <<>>]
    ELSE IF ~env.exists \/ DuplicateIds(docs)
    THEN [env |-> env, ok |-> FALSE, error |-> "addFailed", calls |-> <<"embed", "add">>]
    ELSE IF svc # "ok"
    THEN [env |-> [env EXCEPT !.store = IndexAdd(env.store, SubSeq(docs, 1, Len(docs) - 1))],
          ok |-> FALSE, error |-> "addFailed", calls |-> Embeds(docs) \o <<"add">>]
    ELSE [env |-> [env EXCEPT !.store = IndexAdd(env.store, docs)],
          ok |-> TRUE, error |-> "none", calls |-> Embeds(docs) \o <<"add">>]

\* VectorStore.addDocuments under the service behaviour svc: "embedFail" when an
\* embedding request fails, "indexFail" when collection.add does.
AddDocuments(env, docs, svc) ==
    IF NotInitialized(env)
    THEN [env |-> env, ok |-> FALSE, error |-> "notInitialized", calls |-> <<>>]
    ELSE IF Len(docs) = 0 THEN [env |-> env, ok |-> TRUE, error |-> "none", calls |-> <<>>]
    ELSE IF svc = "embedFail"
    THEN [env |-> env, ok |-> FALSE, error |-> "addFailed", calls |-> Embeds(docs)]
    ELSE IF svc = "indexFail" \/ ~env.exists \/ DuplicateIds(docs)
    THEN [env |-> env, ok |-> FALSE, error |-> "addFailed", calls |-> Embeds(docs) \o <<"add">>]
    ELSE [env |-> [env EXCEPT !.store = IndexAdd(env.store, docs)],
          ok |-> TRUE, error |-> "none", calls |-> Embeds(docs) \o <<"add">>]

\* VectorStore.addDocument
AddDocument(env, doc, svc) ==
    IF NotInitialized(env)
    THEN [env |-> env, ok |-> FALSE, error |-> "notInitialized", calls |-> <<>>]
    ELSE IF svc = "embedFail"
    THEN [env |-> env, ok |-> FALSE, error |-> "addFailed", calls |-> <<"embed">>]
    ELSE IF svc = "indexFail" \/ ~env.exists
    THEN [env |-> env, ok |-> FALSE, error |-> "addFailed", calls |-> <<"embed", "add">>]
    ELSE [env |-> [env EXCEPT !.store = IndexAdd(env.store, <<doc>>)],
          ok |-> TRUE, error |-> "none", calls |-> <<"embed", "add">>]

\* VectorStore.getStatus: countOk says whether collection.count answers.
GetStatus(env, countOk) ==
    IF NotInitialized(env)
    THEN [ok |-> FALSE, error |-> "notInitialized", calls |-> <<>>, totalDocuments |-> 0]
    ELSE IF ~countOk \/ ~env.exists
    THEN [ok |-> FALSE, error |-> "statusFailed", calls |-> <<"count">>, totalDocuments |-> 0]
    ELSE [ok |-> TRUE, error |-> "none", calls |-> <<"count">>,
          totalDocuments |-> Cardinality(DOMAIN env.store)]

\* VectorStore.listDocuments without limit, offset or filter: getOk says whether
\* collection.get answers.
ListDocuments(env, getOk) ==
    IF NotInitialized(env)
    THEN [ok |-> FALSE, error |-> "notInitialized", calls |-> <<>>, ids |-> {}]
    ELSE IF ~getOk \/ ~env.exists
    THEN [ok |-> FALSE, error |-> "listFailed", calls |-> <<"get">>, ids |-> {}]
    ELSE [ok |-> TRUE, error |-> "none", calls |-> <<"get">>, ids |-> DOMAIN env.store]

----------------------------------------------------------------------------
(* Ingestion Pipeline *)

Threw(env, docs, calls) == [env |-> env, ok |-> FALSE, count |-> 0, docs |-> docs, calls |-> calls]

Returned(env, n, docs, calls) == [env |-> env, ok |-> TRUE, count |-> n, docs |-> docs, calls |-> calls]

\* For comparison: no early return for an empty data set; the store is obtained
\* and handed the empty list.
IngestFromDataUnchecked(env, load, dataType, initOk, svc) ==
    LET data == load.rows IN
    IF ~load.loaded THEN Threw(env, <<>>, <<>>)
    ELSE IF \E i \in 1..Len(data) : ConvertThrows(data[i], dataType) THEN Threw(env, <<>>, <<>>)
    ELSE LET docs == SourceDocuments(data, dataType)
             got == GetVectorStore(env, initOk)
         IN  IF ~got.ok THEN Threw(got.env, docs, got.calls)
             ELSE LET added == AddDocuments(got.env, docs, svc)
                  IN  IF added.ok
                      THEN Returned(added.env, Len(docs), docs, got.calls \o added.calls)
                      ELSE Threw(added.env, docs, got.calls \o added.calls)

\* ingestFromSource / ingestFromDirectory, given what the connector did for the
\* source.  ok = FALSE when the call throws, and count is the returned count.
IngestFromData(env, load, dataType, initOk, svc) ==
    LET data == load.rows IN
    IF ~load.loaded THEN Threw(env, <<>>, <<>>)
    ELSE IF Len(data) = 0 THEN Returned(env, 0, <<>>, <<>>)
    ELSE IF \E i \in 1..Len(data) : ConvertThrows(data[i], dataType) THEN Threw(env, <<>>, <<>>)
    ELSE LET docs == SourceDocuments(data, dataType)
             got == GetVectorStore(env, initOk)
         IN  IF ~got.ok THEN Threw(got.env, docs, got.calls)
             ELSE LET added == AddDocuments(got.env, docs, svc)
                  IN  IF added.ok
                      THEN Returned(added.env, Len(docs), docs, got.calls \o added.calls)
                      ELSE Threw(added.env, docs, got.calls \o added.calls)

\* Date.now()
DateNow == 1000000 + clock

\* metadata?.id || Date.now()
DirectKey(metadata, now) == OrElse(metadata.id, ToString(now))

\* The pasted text, as a document content.
DirectContent(source) == [label |-> "text", id |-> NoVal, customerId |-> NoVal, rev |-> source]

\* { type: dataType, ...metadata }
DirectMetadata(dataType, metadata) ==
    [type |-> SpreadType(dataType, metadata.type), customerId |-> NoVal, quoteId |-> NoVal,
     workId |-> NoVal, rev |-> NoVal, id |-> metadata.id]

DirectDocument(source, dataType, metadata, now) ==
    [id |-> DocId(dataType, DirectKey(metadata, now)),
     content |-> DirectContent(source),
     metadata |-> DirectMetadata(dataType, metadata)]

\* ingestFromDirectSource
IngestDirect(env, source, dataType, metadata, now, initOk, svc) ==
    LET docs == <<DirectDocument(source, dataType, metadata, now)>>
        got == GetVectorStore(env, initOk)
    IN  IF ~got.ok THEN Threw(got.env, docs, got.calls)
        ELSE LET added == AddDocuments(got.env, docs, svc)
             IN  IF added.ok
                 THEN Returned(added.env, 1, docs, got.calls \o added.calls)
                 ELSE Threw(added.env, docs, got.calls \o added.calls)

\* byType[k] = v
SetEntry(f, k, v) == [x \in DOMAIN f \cup {k} |-> IF x = k THEN v ELSE f[x]]

\* byType[k] || 0
EntryOr0(f, k) == IF k \in DOMAIN f THEN f[k] ELSE 0

EmptyByType == [t \in {} |-> 0]

\* For comparison: the entry of the type is overwritten by the count of the source.
BulkAddLatest(acc, dataType, count) ==
    [acc EXCEPT !.total = @ + count, !.byType = SetEntry(@, dataType, count)]

\* count of one successful source added to the running sums of ingestBulk
BulkAdd(acc, dataType, count) ==
    [acc EXCEPT !.total = @ + count,
                !.byType = SetEntry(@, dataType, EntryOr0(@, dataType) + count)]

\* For comparison: a catch block that rethrows, which ends the loop and the call.
BulkCatchRethrows(acc) == [acc EXCEPT !.raised = TRUE]

\* The catch block of ingestBulk: the error is logged, the sums are left as they
\* are and the loop goes on (raised would end the loop and the call).
BulkCatch(acc) == acc

\* The loop of ingestBulk from request i on.  log records, per request attempted,
\* its position, whether ingestFromSource returned and the count it returned.
RECURSIVE BulkLoop(_, _, _, _, _)
BulkLoop(env, reqs, i, initOk, acc) ==
    IF i > Len(reqs) \/ acc.raised THEN [env |-> env, acc |-> acc]
    ELSE LET r == reqs[i]
             out == IngestFromData(env, r.load, r.dataType, initOk, r.svc)
             seen == [acc EXCEPT !.log = Append(@, [idx |-> i, dataType |-> r.dataType,
                                                    ok |-> out.ok, count |-> out.count]),
                                 !.calls = @ \o out.calls]
         IN  BulkLoop(out.env, reqs, i + 1, initOk,
                      IF out.ok THEN BulkAdd(seen, r.dataType, out.count) ELSE BulkCatch(seen))

IngestBulkOutcome(env, reqs, initOk) ==
    BulkLoop(env, reqs, 1, initOk,
             [total |-> 0, byType |-> EmptyByType, raised |-> FALSE, log |-> <<>>,
              calls |-> <<>>])

\* A reset that deletes the collection and does not initialize it again.
ResetDeleteOnly(env, delOk, initOk) ==
    IF ~delOk \/ ~env.exists
    THEN [env |-> env, ok |-> FALSE, calls |-> <<"deleteCollection">>]
    ELSE [env |-> [env EXCEPT !.store = EmptyStore, !.exists = FALSE], ok |-> TRUE,
          calls |-> <<"deleteCollection">>]

\* VectorStore.reset behind POST /api/reset: delOk and initOk say whether
\* deleteCollection and getOrCreateCollection answer.
ResetStore(env, delOk, initOk) ==
    IF ~delOk \/ ~env.exists
    THEN [env |-> env, ok |-> FALSE, calls |-> <<"deleteCollection">>]
    ELSE LET gone == [env EXCEPT !.store = EmptyStore, !.exists = FALSE]
         IN  IF initOk
             THEN [env |-> [gone EXCEPT !.collection = TRUE, !.exists = TRUE], ok |-> TRUE,
                   calls |-> <<"deleteCollection", "getOrCreateCollection">>]
             ELSE [env |-> gone, ok |-> FALSE,
                   calls |-> <<"deleteCollection", "getOrCreateCollection">>]

----------------------------------------------------------------------------
(* Retriever: VectorStore.search *)

\* results.distances?.[0]?.[i] when the response carries no distances
UndefinedDistance == -1

\* Scores, thresholds and confidences are rationals <<numerator, denominator>>,
\* denominator > 0.
RZero == <<0, 1>>
ROne == <<1, 1>>
RLeq(a, b) == a[1] * b[2] <= b[1] * a[2]
RLess(a, b) == a[1] * b[2] < b[1] * a[2]
REq(a, b) == a[1] * b[2] = b[1] * a[2]
RAdd(a, b) == <<a[1] * b[2] + b[1] * a[2], a[2] * b[2]>>
RDiv(a, n) == <<a[1], a[2] * n>>
RMin(a, b) == IF RLeq(a, b) THEN a ELSE b

\* For comparison: a score of 1 / (1 + floor(distance / 2)), which gives
\* neighbouring distances the same score.
ScoreOfCoarse(distance) ==
    IF distance # UndefinedDistance THEN <<1, 1 + (distance \div 2)>> ELSE RZero

\* For comparison: a score of 2 / (1 + distance), which leaves [0,1] at distance 0.
ScoreOfDoubled(distance) == IF distance # UndefinedDistance THEN <<2, 1 + distance>> ELSE RZero

\* distance !== undefined ? 1 / (1 + distance) : 0
ScoreOf(distance) == IF distance # UndefinedDistance THEN <<1, 1 + distance>> ELSE RZero

\* For comparison: an index query for one neighbour more than topK.
SearchNResultsPlusOne(topK) == topK + 1

\* const { topK = 5, filter } = options: the nResults of the index query
SearchNResults(topK) == topK

Min(a, b) == IF a <= b THEN a ELSE b

\* the distances that are reported are in ascending order
AscendingWhereReported(ds) ==
    \A i, j \in 1..Len(ds) :
        (i < j /\ ds[i] # UndefinedDistance /\ ds[j] # UndefinedDistance) => ds[i] <= ds[j]

Injective(f) == \A i, j \in DOMAIN f : f[i] = f[j] => i = j

\* What collection.query can answer for nResults neighbours: the ids of the
\* nearest stored documents, nearest first, each with its distance or without one
\* (results.distances?.[0]?.[i] is read entry by entry).
IndexResponses(st, nResults) ==
    LET k == Min(nResults, Cardinality(DOMAIN st))
        hits == { h \in [1..k -> DOMAIN st] : Injective(h) }
        dists == { ds \in [1..k -> Distances \cup {UndefinedDistance}] :
                      AscendingWhereReported(ds) }
    IN  { [ids |-> h, distances |-> ds] : h \in hits, ds \in dists }

\* The loop of search over results.ids[0].
SearchResults(st, resp) ==
    [i \in 1..Len(resp.ids) |->
        LET distance == resp.distances[i]
        IN  [document |-> [id |-> resp.ids[i], content |-> st[resp.ids[i]].content,
                           metadata |-> st[resp.ids[i]].metadata],
             score |-> ScoreOf(distance),
             distance |-> distance]]

\* A search that asks for the embedding a second time when the first request fails.
SearchRetryingEmbedding(env, topK, svc, resp) ==
    IF NotInitialized(env)
    THEN [ok |-> FALSE, error |-> "notInitialized", results |-> <<>>, nResults |-> 0,
          calls |-> <<>>]
    ELSE IF svc = "embedFail"
    THEN [ok |-> FALSE, error |-> "searchFailed", results |-> <<>>, nResults |-> 0,
          calls |-> <<"embed", "embed">>]
    ELSE IF svc = "indexFail" \/ ~env.exists
    THEN [ok |-> FALSE, error |-> "searchFailed", results |-> <<>>,
          nResults |-> SearchNResults(topK), calls |-> <<"embed", "query">>]
    ELSE [ok |-> TRUE, error |-> "none", results |-> SearchResults(env.store, resp),
          nResults |-> SearchNResults(topK), calls |-> <<"embed", "query">>]

\* VectorStore.search(query, { topK }) when the index answers resp.
\* svc: "ok", "embedFail" or "indexFail".
Search(env, topK, svc, resp) ==
    IF NotInitialized(env)
    THEN [ok |-> FALSE, error |-> "notInitialized", results |-> <<>>, nResults |-> 0,
          calls |-> <<>>]
    ELSE IF svc = "embedFail"
    THEN [ok |-> FALSE, error |-> "searchFailed", results |-> <<>>, nResults |-> 0,
          calls |-> <<"embed">>]
    ELSE IF svc = "indexFail" \/ ~env.exists
    THEN [ok |-> FALSE, error |-> "searchFailed", results |-> <<>>,
          nResults |-> SearchNResults(topK), calls |-> <<"embed", "query">>]
    ELSE [ok |-> TRUE, error |-> "none", results |-> SearchResults(env.store, resp),
          nResults |-> SearchNResults(topK), calls |-> <<"embed", "query">>]

----------------------------------------------------------------------------
(* Context Assembler, Confidence Estimator and Answer Orchestrator *)

DefaultTopK == 5
DefaultMinScore == <<1, 2>>

\* For comparison: the default is used whether or not a value was supplied.
OptionOrDefault(options, name, default) == default

\* const { topK = 5, minScore = 0.5 } = options || {}
OptionOr(options, name, default) == IF name \in DOMAIN options THEN options[name] ELSE default

\* For comparison: the exclusive threshold, result.score > minScore.
KeepsAbove(score, minScore) == RLess(minScore, score)

\* result.score >= minScore
Keeps(score, minScore) == RLeq(minScore, score)

\* searchResults.filter((result) => result.score >= minScore)
RECURSIVE FilterResults(_, _)
FilterResults(results, minScore) ==
    IF results = <<>> THEN <<>>
    ELSE LET rest == FilterResults(Tail(results), minScore)
         IN  IF Keeps(Head(results).score, minScore) THEN <<Head(results)>> \o rest ELSE rest

\* For comparison: the sources listed from the last result kept to the first.
ToSourcesLastFirst(results) ==
    [i \in 1..Len(results) |->
        [content |-> results[Len(results) + 1 - i].document.content,
         metadata |-> results[Len(results) + 1 - i].document.metadata,
         score |-> results[Len(results) + 1 - i].score]]

\* filteredResults.map((result) => ({ content, metadata, score }))
ToSources(results) ==
    [i \in 1..Len(results) |->
        [content |-> results[i].document.content,
         metadata |-> results[i].document.metadata,
         score |-> results[i].score]]

\* (source.score * 100).toFixed(1), in tenths of a percent
Relevance(score) == (2000 * score[1] + score[2]) \div (2 * score[2])

\* For comparison: a context of numbered blocks only, empty for no source.
BuildContextOfBlocks(sources) ==
    [sentinel |-> FALSE,
     parts |-> [i \in 1..Len(sources) |->
                   [number |-> i, relevance |-> Relevance(sources[i].score),
                    content |-> sources[i].content]]]

\* buildContext: the sentinel text for no source, otherwise one numbered block per
\* source, in order.
BuildContext(sources) ==
    IF Len(sources) = 0
    THEN [sentinel |-> TRUE, parts |-> <<>>]
    ELSE [sentinel |-> FALSE,
          parts |-> [i \in 1..Len(sources) |->
                        [number |-> i, relevance |-> Relevance(sources[i].score),
                         content |-> sources[i].content]]]

\* sources.reduce((sum, source) => sum + source.score, 0)
RECURSIVE SumScores(_)
SumScores(sources) ==
    IF sources = <<>> THEN RZero
    ELSE RAdd(SumScores(SubSeq(sources, 1, Len(sources) - 1)), sources[Len(sources)].score)

\* For comparison: the score of the first source instead of the mean.
CalculateConfidenceOfFirst(sources) == IF Len(sources) = 0 THEN RZero ELSE sources[1].score

\* For comparison: the sum of the scores, capped at 1, instead of their mean.
CalculateConfidenceOfSum(sources) == RMin(SumScores(sources), ROne)

\* calculateConfidence
CalculateConfidence(sources) ==
    IF Len(sources) = 0 THEN RZero
    ELSE RMin(RDiv(SumScores(sources), Len(sources)), ROne)

\* The user turn that carries the context and the question.
UserPrompt(context, query) == [role |-> "user", content |-> [context |-> context, query |-> query]]

\* For comparison: only the latest turn of the history is sent.
BuildMessagesOfLatest(history, context, query) ==
    (IF history = <<>> THEN <<>>
     ELSE <<[role |-> history[Len(history)].role, content |-> history[Len(history)].content]>>)
    \o <<UserPrompt(context, query)>>

\* messages of query, and of conversationalQuery (the history mapped to role and
\* content, then the user turn).
BuildMessages(history, context, query) ==
    [i \in 1..Len(history) |-> [role |-> history[i].role, content |-> history[i].content]]
    \o <<UserPrompt(context, query)>>

\* The caller's history after the call: history.map and the spread build a new
\* list and leave the caller's as it was.
HistoryAfter(history) == history

\* the fixed message (in Japanese in the source): could not generate an answer
FallbackAnswer == "could not generate an answer"

\* response.content[0].type === 'text' ? response.content[0].text : fallback;
\* reading .type of content[0] throws when content is empty.
AnswerThrows(content) == Len(content) = 0

ExtractAnswer(content) == IF content[1].type = "text" THEN content[1].text ELSE FallbackAnswer

\* What a call saw of the generation service: nothing, when it did not get as far
\* as messages.create.
NotGenerated == [called |-> FALSE, fails |-> FALSE, content |-> <<>>]

\* The body of query and of conversationalQuery: gen says whether messages.create
\* throws and, if not, the content list of its response.
RunQuery(env, query, history, options, initOk, svc, resp, gen) ==
    LET topK == OptionOr(options, "topK", DefaultTopK)
        minScore == OptionOr(options, "minScore", DefaultMinScore)
        got == GetVectorStore(env, initOk)
        none == [env |-> got.env, ok |-> FALSE, topK |-> topK, minScore |-> minScore,
                 nResults |-> 0, retrieved |-> <<>>, sources |-> <<>>, messages |-> <<>>,
                 answer |-> "", confidence |-> RZero, generated |-> NotGenerated,
                 calls |-> got.calls]
    IN  IF ~got.ok THEN none
        ELSE LET found == Search(got.env, topK, svc, resp)
                 sources == ToSources(FilterResults(found.results, minScore))
                 messages == BuildMessages(history, BuildContext(sources), query)
                 searched == [none EXCEPT !.nResults = found.nResults,
                                          !.calls = @ \o found.calls]
                 asked == [searched EXCEPT !.retrieved = found.results,
                                           !.sources = sources,
                                           !.messages = messages,
                                           !.generated = [called |-> TRUE, fails |-> gen.fails,
                                                          content |-> gen.content],
                                           !.calls = @ \o <<"generate">>]
             IN  IF ~found.ok THEN searched
                 ELSE IF gen.fails \/ AnswerThrows(gen.content) THEN asked
                 ELSE [asked EXCEPT !.ok = TRUE,
                                    !.answer = ExtractAnswer(gen.content),
                                    !.confidence = CalculateConfidence(sources)]

----------------------------------------------------------------------------
(* The calls a client makes *)

Idle == last.op = "none"

Commit(env) ==
    /\ Cardinality(DOMAIN env.store) <= MaxDocs
    /\ store' = env.store
    /\ exists' = env.exists
    /\ instance' = env.instance
    /\ collection' = env.collection

\* Service behaviours that can make a difference to a call that adds docs.
InitChoices == IF instance THEN {TRUE} ELSE BOOLEAN

SvcChoices(willAdd) == IF willAdd THEN Services ELSE {"ok"}

Convertible(load, dataType) ==
    /\ load.loaded
    /\ Len(load.rows) > 0
    /\ \A i \in 1..Len(load.rows) : ~ConvertThrows(load.rows[i], dataType)

IngestFromSource ==
    /\ Idle
    /\ \E load \in Loads, dataType \in DataTypes :
       \E initOk \in InitChoices, svc \in SvcChoices(Convertible(load, dataType)) :
        LET out == IngestFromData(Env, load, dataType, initOk, svc)
        IN  /\ Commit(out.env)
            /\ last' = [op |-> "ingestFromSource", dataType |-> dataType,
                        loaded |-> load.loaded, rows |-> Len(load.rows),
                        docs |-> out.docs, ok |-> out.ok, count |-> out.count,
                        calls |-> out.calls]
    /\ UNCHANGED <<clock, page>>

IngestFromDirectory ==
    /\ Idle
    /\ \E load \in DirectoryLoads, dataType \in DataTypes :
       \E initOk \in InitChoices, svc \in SvcChoices(Convertible(load, dataType)) :
        LET out == IngestFromData(Env, load, dataType, initOk, svc)
        IN  /\ Commit(out.env)
            /\ last' = [op |-> "ingestFromDirectory", dataType |-> dataType,
                        loaded |-> load.loaded, rows |-> Len(load.rows),
                        docs |-> out.docs, ok |-> out.ok, count |-> out.count,
                        calls |-> out.calls]
    /\ UNCHANGED <<clock, page>>

IngestFromDirectSource ==
    /\ Idle
    /\ \E source \in Revs, dataType \in DirectTypes, metadata \in DirectMetas :
       \E initOk \in InitChoices, svc \in Services :
        LET out == IngestDirect(Env, source, dataType, metadata, DateNow, initOk, svc)
        IN  /\ Commit(out.env)
            /\ last' = [op |-> "ingestFromDirectSource", dataType |-> dataType,
                        docs |-> out.docs, ok |-> out.ok, count |-> out.count,
                        calls |-> out.calls]
    /\ UNCHANGED <<clock, page>>

IngestBulk ==
    /\ Idle
    /\ \E reqs \in SeqsUpTo(BulkRequests, MaxSources), initOk \in InitChoices :
        LET out == IngestBulkOutcome(Env, reqs, initOk)
        IN  /\ Commit(out.env)
            /\ last' = [op |-> "ingestBulk", n |-> Len(reqs), ok |-> ~out.acc.raised,
                        total |-> out.acc.total, byType |-> out.acc.byType,
                        log |-> out.acc.log, calls |-> out.acc.calls]
    /\ UNCHANGED <<clock, page>>

Reset ==
    /\ Idle
    /\ \E initOk \in InitChoices, delOk \in BOOLEAN, reinitOk \in BOOLEAN :
        LET got == GetVectorStore(Env, initOk)
            out == IF got.ok THEN ResetStore(got.env, delOk, reinitOk)
                   ELSE [env |-> got.env, ok |-> FALSE, calls |-> <<>>]
        IN  /\ Commit(out.env)
            /\ last' = [op |-> "reset", held |-> Cardinality(DOMAIN store), delOk |-> delOk,
                        reinitOk |-> reinitOk, ok |-> out.ok,
                        calls |-> got.calls \o out.calls]
    /\ UNCHANGED <<clock, page>>

\* Service behaviours that can make a difference to a search.
ResponseChoices(topK) ==
    IF exists THEN IndexResponses(store, SearchNResults(topK))
    ELSE { [ids |-> <<>>, distances |-> <<>>] }

\* The one error each operation throws from its catch block, whatever failed.
QueryError(op) == IF op = "query" THEN "RAG query failed" ELSE "conversational RAG query failed"

\* The state and the response after a call of query or conversationalQuery.
Answered(op, history, options, out) ==
    /\ Commit(out.env)
    /\ last' = [op |-> op, history |-> history, historyAfter |-> HistoryAfter(history),
                options |-> options,
                topK |-> out.topK, minScore |-> out.minScore,
                nResults |-> out.nResults, retrieved |-> out.retrieved,
                ok |-> out.ok, error |-> IF out.ok THEN "none" ELSE QueryError(op),
                answer |-> out.answer, sources |-> out.sources,
                confidence |-> out.confidence, messages |-> out.messages,
                generated |-> out.generated, calls |-> out.calls]
    /\ UNCHANGED <<clock, page>>

Query ==
    /\ Idle
    /\ \E options \in QueryOptions, initOk \in InitChoices :
       \E resp \in ResponseChoices(OptionOr(options, "topK", DefaultTopK)),
          svc \in Services, gen \in Generations :
        /\ svc # "ok" => gen.fails /\ resp.ids = <<>>
        /\ Answered("query", <<>>, options,
                    RunQuery(Env, "question", <<>>, options, initOk, svc, resp, gen))

ConversationalQuery ==
    /\ Idle
    /\ \E history \in Histories, options \in QueryOptions, initOk \in InitChoices :
       \E resp \in ResponseChoices(OptionOr(options, "topK", DefaultTopK)),
          svc \in Services, gen \in Generations :
        /\ svc # "ok" => gen.fails /\ resp.ids = <<>>
        /\ Answered("conversationalQuery", history, options,
                    RunQuery(Env, "question", history, options, initOk, svc, resp, gen))

\* Time passes between two calls.
Tick ==
    /\ Idle
    /\ clock < MaxClock
    /\ clock' = clock + 1
    /\ UNCHANGED <<store, exists, instance, collection, last, page>>

\* The caller has taken the response of the last call.
Return ==
    /\ ~Idle
    /\ last' = [op |-> "none"]
    /\ UNCHANGED <<store, exists, instance, collection, clock, page>>

----------------------------------------------------------------------------
(* Calls made on the VectorStore itself *)

\* Documents a caller hands to addDocument / addDocuments.
StoreDocs == { SourceDocument(item, item.kind, 0) : item \in Customers \cup Quotes }

\* The record of a call on the store: whether its collection was initialized and
\* what the index collection held when the call was made, and how the call ended.
StoreCall(op, docs, svc, out) ==
    [op |-> op, initialized |-> collection, before |-> store, docs |-> docs, svc |-> svc,
     ok |-> out.ok, error |-> out.error, calls |-> out.calls]

ObtainStore ==
    /\ Idle
    /\ \E initOk \in InitChoices :
        LET out == GetVectorStore(Env, initOk)
        IN  /\ Commit(out.env)
            /\ last' = [op |-> "getVectorStore", ok |-> out.ok, calls |-> out.calls]
    /\ UNCHANGED <<clock, page>>

StoreAddDocument ==
    /\ Idle
    /\ \E doc \in StoreDocs, svc \in Services :
        LET out == AddDocument(Env, doc, svc)
        IN  /\ Commit(out.env)
            /\ last' = StoreCall("addDocument", <<doc>>, svc, out)
    /\ UNCHANGED <<clock, page>>

StoreAddDocuments ==
    /\ Idle
    /\ \E docs \in SeqsUpTo(StoreDocs, MaxBatch), svc \in Services :
        LET out == AddDocuments(Env, docs, svc)
        IN  /\ Commit(out.env)
            /\ last' = StoreCall("addDocuments", docs, svc, out)
    /\ UNCHANGED <<clock, page>>

StoreSearch ==
    /\ Idle
    /\ \E topK \in TopKs, svc \in Services :
       \E resp \in ResponseChoices(topK) :
        /\ svc # "ok" => resp.ids = <<>>
        /\ last' = StoreCall("search", <<>>, svc, Search(Env, topK, svc, resp))
    /\ UNCHANGED <<store, exists, instance, collection, clock, page>>

StoreGetStatus ==
    /\ Idle
    /\ \E countOk \in BOOLEAN :
        last' = StoreCall("getStatus", <<>>, IF countOk THEN "ok" ELSE "indexFail",
                          GetStatus(Env, countOk))
    /\ UNCHANGED <<store, exists, instance, collection, clock, page>>

StoreListDocuments ==
    /\ Idle
    /\ \E getOk \in BOOLEAN :
        last' = StoreCall("listDocuments", <<>>, IF getOk THEN "ok" ELSE "indexFail",
                          ListDocuments(Env, getOk))
    /\ UNCHANGED <<store, exists, instance, collection, clock, page>>

----------------------------------------------------------------------------
(* HTTP interface: POST /api/ingest, /api/query and /api/query/conversation *)

\* The source property of the body of POST /api/ingest: absent, a text (what the
\* admin form sends; a string has no type property), or a DataSource of type json
\* whose file reads as load.
AbsentSource == [kind |-> "absent", text |-> 0, type |-> NoVal, load |-> LoadFail]
TextSource(text) == [kind |-> "text", text |-> text, type |-> NoVal, load |-> LoadFail]
FileSource(load) == [kind |-> "dataSource", text |-> 0, type |-> "json", load |-> load]

ApiLoads ==
    { LoadFail, [loaded |-> TRUE, rows |-> <<>>],
      [loaded |-> TRUE, rows |-> <<Item("customer", "c1", NoVal, NoVal, NoVal, 1)>>],
      [loaded |-> TRUE, rows |-> <<Item("customer", "c1", NoVal, NoVal, NoVal, 1),
                                   Item("customer", NoVal, NoVal, NoVal, "vip", 1)>>] }

ApiSources ==
    {AbsentSource} \cup { TextSource(t) : t \in Revs } \cup { FileSource(l) : l \in ApiLoads }

IngestBodies ==
    [source : ApiSources, dataType : {NoVal, "customer", "quote"},
     metadata : { [id |-> NoVal, type |-> NoVal], [id |-> "c1", type |-> NoVal] }]

\* CRMConnector.loadData: switch (source.type), the default branch throws.
LoadData(source) ==
    IF source.type \in {"json", "csv", "api"} THEN source.load ELSE LoadFail

\* !request.source || !request.dataType
IngestRejected(body) == body.source.kind = "absent" \/ ~Truthy(body.dataType)

\* The handler of POST /api/ingest.
HandleIngest(env, body, initOk, svc) ==
    IF IngestRejected(body)
    THEN [env |-> env, status |-> 400, success |-> FALSE, count |-> 0, error |-> TRUE,
          calls |-> <<>>]
    ELSE LET out == IngestFromData(env, LoadData(body.source), body.dataType, initOk, svc)
         IN  IF out.ok
             THEN [env |-> out.env, status |-> 200, success |-> TRUE, count |-> out.count,
                   error |-> FALSE, calls |-> out.calls]
             ELSE [env |-> out.env, status |-> 500, success |-> FALSE, count |-> 0,
                   error |-> TRUE, calls |-> out.calls]

\* The history property of the body of POST /api/query/conversation: absent, a
\* value that is not an array, or an array of turns.
ApiHistories ==
    { [kind |-> "absent", turns |-> <<>>], [kind |-> "text", turns |-> <<>>] }
    \cup { [kind |-> "array", turns |-> h] : h \in SeqsUpTo(Messages, 1) }

ApiOptions == { [x \in {} |-> 0], [x \in {"topK"} |-> 1] }

QueryBodies == [query : {NoVal, "", "question"}, history : ApiHistories, options : ApiOptions]

\* !queryRequest.query
QueryMissing(body) == ~Truthy(body.query)

\* For comparison: only an absent history is rejected.
HistoryAbsent(body) == body.history.kind = "absent"

\* !Array.isArray(queryRequest.history)
HistoryMalformed(body) == body.history.kind # "array"

\* The handlers of POST /api/query (conversation = FALSE) and of
\* POST /api/query/conversation (conversation = TRUE).
HandleQuery(env, conversation, body, initOk, svc, resp, gen) ==
    IF QueryMissing(body) \/ (conversation /\ HistoryMalformed(body))
    THEN [env |-> env, status |-> 400, error |-> TRUE, entered |-> FALSE, ok |-> FALSE,
          calls |-> <<>>]
    ELSE LET out == RunQuery(env, body.query, IF conversation THEN body.history.turns ELSE <<>>,
                             body.options, initOk, svc, resp, gen)
         IN  IF out.ok
             THEN [env |-> out.env, status |-> 200, error |-> FALSE, entered |-> TRUE,
                   ok |-> TRUE, calls |-> out.calls]
             ELSE [env |-> out.env, status |-> 500, error |-> TRUE, entered |-> TRUE,
                   ok |-> FALSE, calls |-> out.calls]

PostIngest ==
    /\ Idle
    /\ \E body \in IngestBodies, initOk \in InitChoices, svc \in Services :
        LET out == HandleIngest(Env, body, initOk, svc)
        IN  /\ svc # "ok" => Convertible(LoadData(body.source), body.dataType)
            /\ Commit(out.env)
            /\ last' = [op |-> "POST /api/ingest", body |-> body, initOk |-> initOk,
                        svc |-> svc, status |-> out.status, success |-> out.success,
                        count |-> out.count, error |-> out.error, calls |-> out.calls]
    /\ UNCHANGED <<clock, page>>

\* The state and the response after one of the two query requests.
Responded(op, body, out) ==
    /\ Commit(out.env)
    /\ last' = [op |-> op, body |-> body, status |-> out.status, error |-> out.error,
                entered |-> out.entered, ok |-> out.ok, calls |-> out.calls]
    /\ UNCHANGED <<clock, page>>

PostQuery ==
    /\ Idle
    /\ \E body \in QueryBodies, initOk \in InitChoices :
       \E resp \in ResponseChoices(OptionOr(body.options, "topK", DefaultTopK)),
          svc \in Services, gen \in Generations :
        /\ body.history.kind = "absent"
        /\ svc # "ok" => gen.fails /\ resp.ids = <<>>
        /\ Responded("POST /api/query", body,
                     HandleQuery(Env, FALSE, body, initOk, svc, resp, gen))

PostQueryConversation ==
    /\ Idle
    /\ \E body \in QueryBodies, initOk \in InitChoices :
       \E resp \in ResponseChoices(OptionOr(body.options, "topK", DefaultTopK)),
          svc \in Services, gen \in Generations :
        /\ svc # "ok" => gen.fails /\ resp.ids = <<>>
        /\ Responded("POST /api/query/conversation", body,
                     HandleQuery(Env, TRUE, body, initOk, svc, resp, gen))

----------------------------------------------------------------------------

Init ==
    /\ store = EmptyStore
    /\ exists = FALSE
    /\ instance = FALSE
    /\ collection = FALSE
    /\ clock = 0
    /\ last = [op |-> "none"]
    /\ conversationHistory = <<>>
    /\ requests = {}
    /\ submitted = 0
    /\ disabled = FALSE

Next ==
    \/ IngestFromSource
    \/ IngestFromDirectory
    \/ IngestFromDirectSource
    \/ Reset
    \/ Tick
    \/ Return

Spec == Init /\ [][Next]_vars

NextBulk ==
    \/ IngestBulk
    \/ Reset
    \/ Return

SpecBulk == Init /\ [][NextBulk]_vars

\* The index as earlier runs of the service left it: the first n rows of a
\* customer file, ingested.
Catalogue ==
    [i \in 1..MaxDocs |-> IF i = 1 THEN Item("customer", "c1", NoVal, NoVal, NoVal, 1)
                          ELSE Item("customer", NoVal, NoVal, NoVal, "vip", 1)]

IndexContents ==
    { IndexAdd(EmptyStore, SourceDocuments(SubSeq(Catalogue, 1, n), "customer")) : n \in 0..MaxDocs }

InitQuery ==
    /\ exists \in BOOLEAN
    /\ store \in (IF exists THEN IndexContents ELSE {EmptyStore})
    /\ instance = FALSE
    /\ collection = FALSE
    /\ clock = 0
    /\ last = [op |-> "none"]
    /\ conversationHistory = <<>>
    /\ requests = {}
    /\ submitted = 0
    /\ disabled = FALSE

NextQuery ==
    \/ Query
    \/ ConversationalQuery
    \/ Return

SpecQuery == InitQuery /\ [][NextQuery]_vars

NextStore ==
    \/ ObtainStore
    \/ StoreAddDocument
    \/ StoreAddDocuments
    \/ StoreSearch
    \/ StoreGetStatus
    \/ StoreListDocuments
    \/ IngestFromSource
    \/ IngestFromDirectory
    \/ Reset
    \/ Return

SpecStore == Init /\ [][NextStore]_vars

\* Reading, ingesting and resetting in any order.
NextFrame ==
    \/ PostIngest
    \/ Query
    \/ ConversationalQuery
    \/ StoreSearch
    \/ StoreGetStatus
    \/ StoreListDocuments
    \/ Reset
    \/ Return

SpecFrame == Init /\ [][NextFrame]_vars

----------------------------------------------------------------------------
(* The chat page: handleSubmit and the example buttons *)

\* What the user can type into queryInput, and the data-query of the example buttons.
Inputs == {"", " ", "q1", " q2 "}
ExampleQueries == {"example"}

\* queryInput.value.trim()
Trim(text) == IF text = " " THEN "" ELSE IF text = " q2 " THEN "q2" ELSE text

\* data.answer of a response of POST /api/query with status 200
Answers == {"a1", "a2"}

Turn(role, content) == [role |-> role, content |-> content]

\* For comparison: only the answer is recorded.
HistoryWithAnswerOnly(history, query, answer) == Append(history, Turn("assistant", answer))

\* the two pushes that follow a response with status 200
HistoryOnSuccess(history, query, answer) ==
    history \o <<Turn("user", query), Turn("assistant", answer)>>

\* handleSubmit up to its await of fetch: nothing is sent for an empty query, else
\* the button is disabled and the request goes out.
HandleSubmit(text) ==
    /\ IF Trim(text) = "" THEN UNCHANGED <<requests, submitted, disabled>>
       ELSE /\ submitted < MaxRequests
            /\ requests' = requests \cup {[n |-> submitted + 1, query |-> Trim(text)]}
            /\ submitted' = submitted + 1
            /\ disabled' = TRUE
    /\ UNCHANGED conversationHistory

\* The user submits the form with the button or the Enter key, which a disabled
\* submit button blocks.
SubmitForm ==
    /\ ~disabled
    /\ \E text \in Inputs : HandleSubmit(text)
    /\ UNCHANGED <<store, exists, instance, collection, clock, last>>

\* The user clicks an example button: its query is put into queryInput and a submit
\* event is dispatched on the form, whatever the state of the submit button.
ClickExample ==
    /\ \E query \in ExampleQueries : HandleSubmit(query)
    /\ UNCHANGED <<store, exists, instance, collection, clock, last>>

\* The response of a request arrives with status 200 and an answer: the rest of the
\* try block and the finally block run.
ResponseOk ==
    /\ \E r \in requests, answer \in Answers :
        /\ requests' = requests \ {r}
        /\ conversationHistory' = HistoryOnSuccess(conversationHistory, r.query, answer)
    /\ disabled' = FALSE
    /\ UNCHANGED <<submitted, store, exists, instance, collection, clock, last>>

\* The request fails (no connection, a status other than 2xx, a body that is not
\* JSON): the catch block and the finally block run.
ResponseFailure ==
    /\ \E r \in requests : requests' = requests \ {r}
    /\ disabled' = FALSE
    /\ UNCHANGED <<conversationHistory, submitted, store, exists, instance, collection,
                   clock, last>>

NextChat ==
    \/ SubmitForm
    \/ ClickExample
    \/ ResponseOk
    \/ ResponseFailure

SpecChat == Init /\ [][NextChat]_vars

NextApi ==
    \/ PostIngest
    \/ PostQuery
    \/ PostQueryConversation
    \/ Return

SpecApi == Init /\ [][NextApi]_vars

----------------------------------------------------------------------------
(* Properties of the ingestion pipeline *)

IngestionOps == {"ingestFromSource", "ingestFromDirectory", "ingestFromDirectSource"}

Stored(d) == [content |-> d.content, metadata |-> d.metadata]

\* Two document contents render the same record: same record type and identifiers.
SameRecord(a, b) == a.label = b.label /\ a.id = b.id /\ a.customerId = b.customerId

\* C1: after an ingestion that succeeded, every document it built is in the
\* collection under its id, exactly once, and where the collection held a document of
\* the same record (same type, same identifier) under that id, it now holds the
\* document just built: the re-ingested record replaced the stored one.
C1_ReingestReplaces ==
    (last.op \in IngestionOps /\ last.ok) =>
        \A i \in 1..Len(last.docs) :
            /\ last.docs[i].id \in DOMAIN store
            /\ SameRecord(store[last.docs[i].id].content, last.docs[i].content)
                  => store[last.docs[i].id] = Stored(last.docs[i])

\* the record type's own identifier field, read from the metadata (which carries
\* every field of the record)
OwnIdentifier(metadata, dataType) ==
    CASE dataType = "customer" -> metadata.customerId
      [] dataType = "quote" -> metadata.quoteId
      [] OTHER -> metadata.workId

\* C2: every document ingested by ingestFromSource or ingestFromDirectory from a
\* record that carries its type's own identifier has the id dataType_ownIdentifier.
C2_IdFromOwnIdentifier ==
    (last.op \in {"ingestFromSource", "ingestFromDirectory"} /\ last.ok) =>
        \A i \in 1..Len(last.docs) :
            Truthy(OwnIdentifier(last.docs[i].metadata, last.dataType))
                => last.docs[i].id =
                      DocId(last.dataType, OwnIdentifier(last.docs[i].metadata, last.dataType))

\* C3: every document an ingestion operation builds and writes has metadata.type
\* equal to the dataType of the request.
C3_MetadataTypeIsDataType ==
    (last.op \in IngestionOps /\ last.ok) =>
        \A i \in 1..Len(last.docs) : last.docs[i].metadata.type = last.dataType

\* the sum of the counts of the logged sources that returned
RECURSIVE SumReturned(_)
SumReturned(log) ==
    IF log = <<>> THEN 0
    ELSE (IF Head(log).ok THEN Head(log).count ELSE 0) + SumReturned(Tail(log))

\* C4: ingestBulk does not raise, attempts every source in order, and returns as
\* total the sum of the counts of the sources that succeeded.
C4_BulkTotalsSucceeded ==
    last.op = "ingestBulk" =>
        /\ last.ok
        /\ Len(last.log) = last.n
        /\ \A i \in 1..Len(last.log) : last.log[i].idx = i
        /\ last.total = SumReturned(last.log)

\* three sources, the second fails, the other two return documents
C4_Witness ==
    /\ last.op = "ingestBulk"
    /\ last.n = 3
    /\ last.log[1].ok /\ last.log[1].count > 0
    /\ ~last.log[2].ok
    /\ last.log[3].ok /\ last.log[3].count > 0
    /\ last.total = last.log[1].count + last.log[3].count

----------------------------------------------------------------------------
(* Properties of the retriever and of the answer orchestrator *)

QueryOps == {"query", "conversationalQuery"}

\* the call got its search results (and went on to filter them and to generate)
Retrieved == last.op \in QueryOps /\ last.messages # <<>>

Reshaped(results) ==
    [i \in 1..Len(results) |->
        [content |-> results[i].document.content, metadata |-> results[i].document.metadata,
         score |-> results[i].score]]

AtLeast(results, minScore) == SelectSeq(results, LAMBDA r : RLeq(minScore, r.score))

\* C5: the sources are exactly the retrieved results whose score is >= minScore, so
\* a result whose score equals minScore is kept.
C5_ThresholdInclusive ==
    Retrieved => last.sources = Reshaped(AtLeast(last.retrieved, last.minScore))

C5_Witness ==
    /\ Retrieved /\ last.ok
    /\ \E i \in 1..Len(last.retrieved) :
          /\ REq(last.retrieved[i].score, last.minScore)
          /\ \E j \in 1..Len(last.sources) : last.sources[j].content = last.retrieved[i].document.content

\* s is r with some entries left out
RECURSIVE IsSubSeq(_, _)
IsSubSeq(s, r) ==
    IF s = <<>> THEN TRUE
    ELSE IF r = <<>> THEN FALSE
    ELSE IF Head(s) = Head(r) THEN IsSubSeq(Tail(s), Tail(r))
    ELSE IsSubSeq(s, Tail(r))

\* thresholds to compare: those a request can name, the default, and every score
Thresholds == MinScores \cup {DefaultMinScore} \cup { ScoreOf(d) : d \in Distances }

\* C6: the index is asked for exactly topK neighbours whatever minScore is, the
\* sources are a sub-sequence of the retrieved results, there are at most topK of
\* them, and a higher threshold never keeps more of the retrieved results.
C6_TopKIsThePool ==
    /\ (last.op \in QueryOps /\ last.nResults # 0) => last.nResults = last.topK
    /\ Retrieved =>
        /\ Len(last.retrieved) <= last.topK
        /\ IsSubSeq(last.sources, Reshaped(last.retrieved))
        /\ Len(last.sources) <= last.topK
        /\ \A m1, m2 \in Thresholds :
              RLeq(m1, m2) => Len(FilterResults(last.retrieved, m2))
                                 <= Len(FilterResults(last.retrieved, m1))

C6_Witness ==
    /\ Retrieved /\ last.ok
    /\ "minScore" \in DOMAIN last.options
    /\ Len(last.retrieved) = last.topK
    /\ Len(last.sources) < Len(last.retrieved)
    /\ Len(last.sources) > 0

\* the confidence of the retrieved results kept under threshold m
ConfidenceAt(m) == CalculateConfidence(ToSources(FilterResults(last.retrieved, m)))

\* C7 as stated: for the retrieved results and thresholds m1 <= m2, the confidence
\* under m2 is at least the confidence under m1.
C7_ConfidenceMonotone ==
    Retrieved =>
        \A m1, m2 \in Thresholds : RLeq(m1, m2) => RLeq(ConfidenceAt(m1), ConfidenceAt(m2))

\* C7 as amended: the confidence under m2 is at least the confidence under m1 as
\* long as some result reaches m2; when none does, the confidence under m2 is 0.
C7_ConfidenceMonotoneWhileKept ==
    Retrieved =>
        \A m1, m2 \in Thresholds :
            RLeq(m1, m2) =>
                IF FilterResults(last.retrieved, m2) # <<>>
                THEN RLeq(ConfidenceAt(m1), ConfidenceAt(m2))
                ELSE ConfidenceAt(m2) = RZero

C7_Witness ==
    /\ Retrieved
    /\ \E m1, m2 \in Thresholds :
          /\ RLess(m1, m2)
          /\ FilterResults(last.retrieved, m2) # <<>>
          /\ Len(FilterResults(last.retrieved, m2)) < Len(FilterResults(last.retrieved, m1))
          /\ RLess(ConfidenceAt(m1), ConfidenceAt(m2))

NoneReaches == \A i \in 1..Len(last.retrieved) : RLess(last.retrieved[i].score, last.minScore)

\* C8: when no retrieved result reaches minScore, the prompt sent to generation
\* carries the sentinel context and no document, and a response has no sources and
\* confidence 0.
C8_EmptyContextSentinel ==
    (Retrieved /\ NoneReaches) =>
        /\ last.messages[Len(last.messages)].content.context = [sentinel |-> TRUE, parts |-> <<>>]
        /\ last.sources = <<>>
        /\ last.ok => last.confidence = RZero

C8_Witness ==
    /\ Retrieved /\ NoneReaches /\ last.ok
    /\ last.retrieved # <<>>
    /\ last.answer = "answer"

\* C9: the results of search are in non-increasing score order, for every response
\* of the index (ascending distances, entries possibly missing).
C9_ScoresNonIncreasing ==
    last.op \in QueryOps =>
        \A i \in 1..(Len(last.retrieved) - 1) :
            RLeq(last.retrieved[i + 1].score, last.retrieved[i].score)

\* C10: every score of a search result is in [0,1].
C10_ScoresInUnitInterval ==
    last.op \in QueryOps =>
        \A i \in 1..Len(last.retrieved) :
            RLeq(RZero, last.retrieved[i].score) /\ RLeq(last.retrieved[i].score, ROne)

C10_Witness ==
    /\ last.op \in QueryOps
    /\ Len(last.retrieved) >= 2
    /\ last.retrieved[1].distance = 0
    /\ last.retrieved[1].score = ROne
    /\ last.retrieved[2].distance = UndefinedDistance
    /\ last.retrieved[2].score = RZero

RECURSIVE TotalScore(_)
TotalScore(sources) ==
    IF sources = <<>> THEN RZero ELSE RAdd(Head(sources).score, TotalScore(Tail(sources)))

\* C12: the confidence of a response is 0 when it has no source, otherwise the
\* arithmetic mean of the scores of its sources, capped at 1; it lies in [0,1].
C12_ConfidenceIsCappedMean ==
    (last.op \in QueryOps /\ last.ok) =>
        /\ last.sources = <<>> => last.confidence = RZero
        /\ last.sources # <<>> =>
              LET n == Len(last.sources)
                  total == TotalScore(last.sources)
              IN  IF total[1] <= n * total[2]
                  THEN last.confidence[1] * n * total[2] = total[1] * last.confidence[2]
                  ELSE REq(last.confidence, ROne)
        /\ RLeq(RZero, last.confidence) /\ RLeq(last.confidence, ROne)

C12_Witness ==
    /\ last.op \in QueryOps /\ last.ok
    /\ Len(last.sources) = 2
    /\ RLess(last.sources[2].score, last.sources[1].score)
    /\ RLess(last.sources[2].score, last.confidence)
    /\ RLess(last.confidence, last.sources[1].score)

\* the text blocks of a response content, in order
TextBlocks(content) == SelectSeq(content, LAMBDA b : b.type = "text")

\* C13: when the generation service answers, query and conversationalQuery return:
\* the answer is the text of the first text block of the response, or the fixed
\* message when the response has no text block (empty content included).
C13_AnswerFromFirstTextBlock ==
    (last.op \in QueryOps /\ last.generated.called /\ ~last.generated.fails) =>
        /\ last.ok
        /\ last.answer = IF TextBlocks(last.generated.content) # <<>>
                         THEN TextBlocks(last.generated.content)[1].text
                         ELSE FallbackAnswer

\* C14: the messages conversationalQuery sends to generation are the n turns of the
\* history, role and content unchanged and in order, followed by one user turn that
\* carries the assembled context and the question; the caller's history is as it was.
C14_HistoryPassedThrough ==
    (last.op = "conversationalQuery" /\ last.generated.called) =>
        LET n == Len(last.history) IN
        /\ Len(last.messages) = n + 1
        /\ \A i \in 1..n :
              /\ last.messages[i].role = last.history[i].role
              /\ last.messages[i].content = last.history[i].content
        /\ last.messages[n + 1].role = "user"
        /\ last.messages[n + 1].content.query = "question"
        /\ last.messages[n + 1].content.context = BuildContext(last.sources)
        /\ last.historyAfter = last.history

C14_Witness ==
    /\ last.op = "conversationalQuery" /\ last.ok
    /\ Len(last.history) = 2
    /\ last.history[1].role = "user" /\ last.history[2].role = "assistant"
    /\ Len(last.messages) = 3
    /\ last.sources # <<>>

\* C15: query and conversationalQuery use the topK and the minScore of the request
\* where it supplies them, and 5 and 0.5 where it does not (options absent or
\* without the property); the index is asked for that topK.
C15_DefaultsForAbsentOptions ==
    last.op \in QueryOps =>
        /\ last.topK = IF "topK" \in DOMAIN last.options THEN last.options["topK"] ELSE 5
        /\ IF "minScore" \in DOMAIN last.options
           THEN last.minScore = last.options["minScore"]
           ELSE REq(last.minScore, <<1, 2>>)
        /\ last.nResults # 0 => last.nResults = last.topK
        /\ Retrieved => last.sources = Reshaped(AtLeast(last.retrieved, last.minScore))

C15_Witness ==
    /\ last.op \in QueryOps /\ last.ok
    /\ DOMAIN last.options = {"topK"}
    /\ last.nResults = last.options["topK"]
    /\ REq(last.minScore, <<1, 2>>)
    /\ \E i \in 1..Len(last.retrieved) : RLess(last.retrieved[i].score, last.minScore)

----------------------------------------------------------------------------
(* Properties of the HTTP interface *)

\* C16: POST /api/ingest with a text source and a dataType, the embedding and index
\* services answering, responds 200 with success and count 1 and leaves a document
\* whose content is the text in the collection.
C16_IngestEndpointStoresText ==
    (/\ last.op = "POST /api/ingest"
     /\ last.body.source.kind = "text"
     /\ last.body.dataType \in DataTypes
     /\ last.initOk /\ last.svc = "ok") =>
        /\ last.status = 200
        /\ last.success
        /\ last.count = 1
        /\ \E id \in DOMAIN store : store[id].content = DirectContent(last.body.source.text)

QueryEndpoints == {"POST /api/query", "POST /api/query/conversation"}

\* C17: the query endpoints answer 400, without any call to the index, the embedding
\* provider or generation, when query is missing or empty and, for the conversation
\* endpoint, when history is not an array; a request that entered the pipeline and
\* failed there is answered 500 with an error field.
C17_QueryEndpointsValidate ==
    last.op \in QueryEndpoints =>
        /\ last.body.query \in {NoVal, ""} =>
              last.status = 400 /\ last.error /\ last.calls = <<>> /\ ~last.entered
        /\ (last.op = "POST /api/query/conversation" /\ last.body.history.kind # "array") =>
              last.status = 400 /\ last.error /\ last.calls = <<>> /\ ~last.entered
        /\ (last.entered /\ ~last.ok) => last.status = 500 /\ last.error

C17_Witness ==
    /\ last.op = "POST /api/query/conversation"
    /\ last.body.query = "question"
    /\ last.body.history.kind = "text"
    /\ last.status = 400
    /\ last.calls = <<>>
    /\ ~instance

----------------------------------------------------------------------------
(* Properties of the VectorStore *)

StoreOps == {"search", "addDocument", "addDocuments", "getStatus", "listDocuments"}

\* C18: search, addDocument, addDocuments, getStatus and listDocuments called on a
\* store whose collection is not initialized fail with the not-initialized error and
\* make no call to the embedding provider or to the index.
C18_UninitializedFailsBeforeAnyCall ==
    (last.op \in StoreOps /\ ~last.initialized) =>
        /\ ~last.ok
        /\ last.error = "notInitialized"
        /\ last.calls = <<>>
        /\ store = last.before

C18_Witness ==
    /\ last.op = "search"
    /\ instance /\ ~last.initialized
    /\ last.error = "notInitialized"
    /\ last.calls = <<>>

\* C19: addDocument and addDocuments write to the index at most once per call, as
\* their last call, after one embedding request per document, and not at all when an
\* embedding fails; a call that fails leaves the collection as it was, a call that
\* succeeds leaves every document of the batch in it.
C19_NoPartialWrite ==
    last.op \in {"addDocument", "addDocuments"} =>
        LET adds == SelectSeq(last.calls, LAMBDA c : c = "add") IN
        /\ Len(adds) <= 1
        /\ Len(adds) = 1 =>
              /\ last.calls[Len(last.calls)] = "add"
              /\ Len(last.calls) = Len(last.docs) + 1
              /\ last.svc # "embedFail"
        /\ ~last.ok => store = last.before
        /\ last.ok => \A i \in 1..Len(last.docs) : last.docs[i].id \in DOMAIN store

C19_Witness ==
    /\ last.op = "addDocuments"
    /\ last.initialized /\ exists
    /\ Len(last.docs) = 2
    /\ last.docs[1].id # last.docs[2].id
    /\ last.svc = "indexFail"
    /\ ~last.ok
    /\ last.calls = <<"embed", "embed", "add">>
    /\ last.docs[1].id \notin DOMAIN store

----------------------------------------------------------------------------
(* Further properties of the ingestion pipeline *)

\* the readings of the clock at which a request may be run
ClockReadings == { 1000000 + c : c \in 0..MaxClock }

\* C21: the id an ingestion operation gives a document does not depend on when the
\* operation runs: the same request run at any other time builds the same id
\* (source records by their key or position, direct text by metadata.id or fallback).
C21_IdsAreDeterministic ==
    /\ last.op \in {"ingestFromSource", "ingestFromDirectory"} =>
          \A i \in 1..Len(last.docs) :
              last.docs[i].id = DocId(last.dataType, SourceKey(last.docs[i].metadata, i - 1))
    /\ last.op = "ingestFromDirectSource" =>
          \A now \in ClockReadings :
              last.docs[1].id = DocId(last.dataType, DirectKey(last.docs[1].metadata, now))

----------------------------------------------------------------------------
(* Reset *)

\* how many times a call was made to the service named c
Count(calls, c) == Cardinality({ i \in 1..Len(calls) : calls[i] = c })

\* C22: a reset that succeeds leaves an initialized, existing and empty collection:
\* getStatus reports 0 documents and addDocuments and search succeed at once, with
\* no initialize call in between.  When deleteCollection or the initialization
\* after it fails, reset throws, and it calls each of the two at most once.
C22_ResetLeavesEmptyInitialized ==
    last.op = "reset" =>
        /\ last.ok =>
            /\ collection /\ exists /\ store = EmptyStore
            /\ GetStatus(Env, TRUE).ok /\ GetStatus(Env, TRUE).totalDocuments = 0
            /\ \A doc \in StoreDocs : AddDocuments(Env, <<doc>>, "ok").ok
            /\ \A topK \in TopKs : \A resp \in ResponseChoices(topK) :
                   Search(Env, topK, "ok", resp).ok
        /\ (~last.delOk \/ ~last.reinitOk) => ~last.ok
        /\ Count(last.calls, "deleteCollection") <= 1
        /\ Count(last.calls, "getOrCreateCollection")
               <= 1 + Count(SubSeq(last.calls, 1, 1), "getOrCreateCollection")

C22_Witness ==
    /\ last.op = "reset" /\ last.ok /\ last.held > 0
    /\ last.calls = <<"deleteCollection", "getOrCreateCollection">>
    /\ store = EmptyStore /\ collection

----------------------------------------------------------------------------
(* Order of the external calls of a query *)

\* the calls a query made to the embedding provider, the index and the generation
\* service, after the store was obtained
ExternalCalls == SelectSeq(last.calls, LAMBDA c : c # "getOrCreateCollection")

QueryPipeline == <<"embed", "query", "generate">>

IsPrefix(s, t) == Len(s) <= Len(t) /\ s = SubSeq(t, 1, Len(s))

\* C23: one query or conversationalQuery calls the embedding provider, then the
\* index, then the generation service, each at most once and none again after a
\* failure; generation is called only after retrieval succeeded; a call that fails at
\* any step throws the one error of its operation and returns no response, and a
\* call that succeeds has made the three calls.
C23_CallsInFixedOrder ==
    last.op \in QueryOps =>
        /\ IsPrefix(ExternalCalls, QueryPipeline)
        /\ Count(last.calls, "generate") > 0 => Retrieved
        /\ last.ok => ExternalCalls = QueryPipeline /\ last.error = "none"
        /\ ~last.ok => /\ last.error = QueryError(last.op)
                       /\ last.answer = "" /\ last.confidence = RZero

C23_Witness ==
    /\ last.op = "conversationalQuery" /\ ~last.ok
    /\ ExternalCalls = <<"embed", "query">>
    /\ last.error = "conversational RAG query failed"

----------------------------------------------------------------------------
(* Sources and confidence of a response *)

\* positions of the retrieved results whose score reaches the threshold
KeptPositions == { i \in 1..Len(last.retrieved) : RLeq(last.minScore, last.retrieved[i].score) }

\* the position in the retrieved results of the j-th result kept
KeptAt(j) ==
    CHOOSE i \in KeptPositions : Cardinality({ k \in KeptPositions : k <= i }) = j

\* sum of the scores of the first n results kept
RECURSIVE KeptScore(_)
KeptScore(n) ==
    IF n = 0 THEN RZero ELSE RAdd(KeptScore(n - 1), last.retrieved[KeptAt(n)].score)

\* C24: in a successful response of query or conversationalQuery the sources are the
\* retrieved results with score >= minScore, in the order retrieved, each with the
\* content, metadata and score it was retrieved with, and the confidence is the
\* capped mean of the scores of those results (0 when none was kept).
C24_SourcesAreTheKeptResults ==
    (last.op \in QueryOps /\ last.ok) =>
        LET n == Cardinality(KeptPositions)
        IN  /\ Len(last.sources) = n
            /\ \A j \in 1..n :
                  /\ DOMAIN last.sources[j] = {"content", "metadata", "score"}
                  /\ last.sources[j].content = last.retrieved[KeptAt(j)].document.content
                  /\ last.sources[j].metadata = last.retrieved[KeptAt(j)].document.metadata
                  /\ last.sources[j].score = last.retrieved[KeptAt(j)].score
            /\ IF n = 0 THEN last.confidence = RZero
               ELSE IF RLeq(KeptScore(n), <<n, 1>>)
                    THEN REq(last.confidence, <<KeptScore(n)[1], KeptScore(n)[2] * n>>)
                    ELSE REq(last.confidence, ROne)

C24_Witness ==
    /\ last.op \in QueryOps /\ last.ok
    /\ Len(last.retrieved) = 2 /\ KeptPositions = {1}
    /\ Len(last.sources) = 1
    /\ last.sources[1].content = last.retrieved[1].document.content
    /\ REq(last.confidence, last.retrieved[1].score)
    /\ RLess(last.retrieved[2].score, last.retrieved[1].score)

----------------------------------------------------------------------------
(* What changes the stored documents *)

ReadOps == {"query", "conversationalQuery", "search", "getStatus", "listDocuments"}

\* every document of st is held, unchanged, by st2
KeptIn(st, st2) == \A id \in DOMAIN st : id \in DOMAIN st2 /\ st2[id] = st[id]

\* C25: query, conversationalQuery, search, getStatus and listDocuments leave the
\* stored documents as they were; an ingestion that succeeds leaves at least as many
\* documents as before; whenever a stored document is gone, a reset removed it.
C25_OnlyResetRemoves ==
    [][ /\ last'.op \in ReadOps => store' = store
        /\ (last'.op = "POST /api/ingest" /\ last'.success) =>
               Cardinality(DOMAIN store') >= Cardinality(DOMAIN store)
        /\ ~KeptIn(store, store') => last'.op = "reset" ]_vars

C25_Witness ==
    /\ last.op = "POST /api/ingest" /\ last.success /\ last.count = 1
    /\ Cardinality(DOMAIN store) = 2

----------------------------------------------------------------------------
(* The conversation history and the submit button of the chat page *)

\* even length, user and assistant turns alternating from a user turn
WellFormedHistory(history) ==
    /\ Len(history) % 2 = 0
    /\ \A i \in 1..Len(history) :
          history[i].role = (IF i % 2 = 1 THEN "user" ELSE "assistant")

\* C26: conversationHistory is append-only and well formed, also when requests
\* overlap: it always has even length with user and assistant turns alternating; a
\* step that changes it appends the user turn of a request whose response arrived and,
\* right after it, the assistant turn with the answer of that response; a request
\* that fails leaves it unchanged.
C26_HistoryAppendOnlyWellFormed ==
    /\ [] WellFormedHistory(conversationHistory)
    /\ [][ \/ conversationHistory' = conversationHistory
           \/ \E r \in requests \ requests', answer \in Answers :
                 conversationHistory' =
                     conversationHistory \o <<Turn("user", r.query), Turn("assistant", answer)>> ]_vars

\* the second request sent was answered while the first is still in flight
C26_Witness ==
    /\ \E r \in requests : r.n = 1
    /\ submitted >= 2
    /\ Len(conversationHistory) = 2
    /\ conversationHistory[1].role = "user" /\ conversationHistory[2].role = "assistant"

\* C30: the submit button is disabled exactly while a query request is in flight.
C30_ButtonDisabledWhileInFlight == disabled <=> requests # {}

----------------------------------------------------------------------------
(* The shared VectorStore *)

\* C27: a VectorStore that getVectorStore returns has an initialized collection,
\* also when an earlier initialization failed.
C27_HandedOutInitialized ==
    (last.op = "getVectorStore" /\ last.ok) => collection

\* C28: when addDocuments, search, getStatus or listDocuments calls the
\* index, the collection its handle refers to exists, also after a reset that failed
\* after deleting the collection.
C28_HandleRefersToExistingCollection ==
    (/\ last.op \in {"addDocuments", "search", "getStatus", "listDocuments"}
     /\ \E i \in 1..Len(last.calls) : last.calls[i] \in {"add", "query", "count", "get"})
    => exists

----------------------------------------------------------------------------
(* The result of ingestBulk *)

\* sum of the values of byType over the types of the set ts
RECURSIVE SumByType(_, _)
SumByType(byType, ts) ==
    IF ts = {} THEN 0
    ELSE LET t == CHOOSE x \in ts : TRUE
         IN  byType[t] + SumByType(byType, ts \ {t})

\* sum of the counts returned by the sources of type t that were ingested
RECURSIVE SumOfType(_, _)
SumOfType(log, t) ==
    IF log = <<>> THEN 0
    ELSE (IF Head(log).ok /\ Head(log).dataType = t THEN Head(log).count ELSE 0)
         + SumOfType(Tail(log), t)

\* C29: in the result of ingestBulk total is the sum of the values of byType, byType
\* has an entry for a type only if a source of that type was ingested without error,
\* and the entry is the sum of the counts of those sources.
C29_TotalIsSumOfByType ==
    last.op = "ingestBulk" =>
        /\ last.total = SumByType(last.byType, DOMAIN last.byType)
        /\ \A t \in DOMAIN last.byType :
              /\ \E i \in 1..Len(last.log) : last.log[i].ok /\ last.log[i].dataType = t
              /\ last.byType[t] = SumOfType(last.log, t)

\* two customer sources ingested, one quote source failed
C29_Witness ==
    /\ last.op = "ingestBulk" /\ last.n = 3
    /\ \E i, j, k \in 1..3 :
          /\ i # j
          /\ last.log[i].ok /\ last.log[i].dataType = "customer" /\ last.log[i].count > 0
          /\ last.log[j].ok /\ last.log[j].dataType = "customer" /\ last.log[j].count > 0
          /\ ~last.log[k].ok /\ last.log[k].dataType = "quote"
    /\ DOMAIN last.byType = {"customer"}
    /\ last.total = last.byType["customer"] /\ last.total >= 2

====
